---------------------------- MODULE Spec2Model ----------------------------
(***************************************************************************)
(* Model of src/lib/components/csvImportBox.svelte: the CSV import box.    *)
(*                                                                         *)
(* The component keeps a store `importItems` (an insertion-ordered Map     *)
(* from migration id to {status, collection}), which is fed by a one-shot  *)
(* migrations.list() at mount and by a realtime subscription.  Every       *)
(* migration goes through the async function updateOrAddItem, which may    *)
(* suspend at one await (the collection-name lookup) and then writes the   *)
(* store and calls showCompletionNotification.                             *)
(*                                                                         *)
(* JavaScript runs each task to completion, so one action of the model is  *)
(* one run of a callback or of a continuation up to its next await.        *)
(***************************************************************************)
EXTENDS Integers, Sequences, FiniteSets, Bags, TLC

VARIABLES
    items,              \* contents of the Map held by the store importItems
    showCsvImportBox,   \* the reactive `$importItems.size > 0`
    isOpen,             \* the reactive/toggled `isOpen`
    pending,            \* bag of updateOrAddItem calls suspended at the await
    mounted,            \* the component is mounted (subscription is open)
    fetch,              \* state of the migrations.list() promise of onMount
    fetchQueue,         \* migrations the forEach of the .then has yet to visit
    nEvents,            \* number of migrations handed to updateOrAddItem so far
    last,               \* what the last step did (history variable)
    fnIn,               \* arguments of a direct call of a pure function
    fnOut               \* its result

vars == <<items, showCsvImportBox, isOpen, pending, mounted, fetch,
          fetchQueue, nEvents, last, fnIn, fnOut>>

-----------------------------------------------------------------------------
(* Bounds *)

MaxEvents == 2

-----------------------------------------------------------------------------
(* JavaScript values *)

Undefined == [kind |-> "undefined"]
Null == [kind |-> "null"]
Str(s) == [kind |-> "string", val |-> s]

\* `x ?? d`
Nullish(x) == x = Undefined \/ x = Null
Coalesce(x, d) == IF Nullish(x) THEN d ELSE x

\* strings are held as sequences of characters, arrays as sequences
Arr(a) == [kind |-> "array", val |-> a]
isArray(x) == x.kind = "array"

\* truthiness: null, undefined and '' are falsy; every array is truthy
EmptyString(x) == x.kind = "string" /\ x.val = <<>>
Truthy(x) == ~Nullish(x) /\ ~EmptyString(x)

\* String.prototype.toLowerCase, on a string held as a sequence of characters
LowerChar(c) ==
    CASE c = "C" -> "c"
      [] c = "S" -> "s"
      [] c = "V" -> "v"
      [] c = "X" -> "x"
      [] c = "M" -> "m"
      [] c = "L" -> "l"
      [] OTHER -> c
toLowerCase(s) == [i \in DOMAIN s |-> LowerChar(s[i])]

\* String.prototype.split(sep) for a one-character separator
RECURSIVE SplitFrom(_, _, _, _)
SplitFrom(s, sep, i, cur) ==
    IF i > Len(s) THEN <<cur>>
    ELSE IF s[i] = sep THEN <<cur>> \o SplitFrom(s, sep, i + 1, <<>>)
    ELSE SplitFrom(s, sep, i + 1, Append(cur, s[i]))
split(s, sep) == SplitFrom(s, sep, 1, <<>>)

\* array destructuring `[a, b] = arr`: a missing element is undefined
At(arr, i) == IF i <= Len(arr) THEN Str(arr[i]) ELSE Undefined

-----------------------------------------------------------------------------
(* The environment: what the backend can send *)

Ids == {"m1", "m2"}
InProgressStatuses == {"pending", "processing", "uploading"}
DoneStatuses == {"completed", "failed"}
\* status is an open string domain: "paused" stands for an unrecognized status
Statuses == InProgressStatuses \cup DoneStatuses \cup {"paused"}

\* the backend names the source "CSV"; the others are not csv imports
Sources == { <<"C","S","V">>, <<"C","S">>, <<"x","m","l">> }
CsvSources == { s \in Sources : toLowerCase(s) = <<"c","s","v">> }

\* resourceId: absent, "d:c" (database d, collection c) and "d:"
ResourceIds == { Undefined, Str(<<"d", ":", "c">>), Str(<<"d", ":">>) }

\* errors: absent, or a list of json encoded strings
GoodJson == "{\"message\":\"Row 2 is invalid\"}"
BadJson == "<html>502</html>"
ErrorLists == { Undefined, Arr(<<GoodJson>>) }

\* errors is read for a failed migration only (lines 35 and 106), so the
\* migrations of the other statuses are drawn without it
Migrations ==
    { m \in [id : Ids, source : Sources, status : Statuses,
             resourceId : ResourceIds, errors : ErrorLists] :
        m.status # "failed" => m.errors = Undefined }

\* what migrations.list([source = CSV, status in (pending, processing)]) returns
ListedMigrations ==
    { m \in Migrations : m.source \in CsvSources
                         /\ m.status \in {"pending", "processing"} }
FetchResults ==
    { <<>> } \cup { <<m>> : m \in ListedMigrations }

\* the name the directory holds for a collection, and the collection of the
\* page the user is on (page.params.collection)
CollectionName(databaseId, collectionId) == Str(<<"U", "s", "e", "r", "s">>)
PageCollections == { Undefined, Str(<<"c">>) }

-----------------------------------------------------------------------------
(* The Map of the store: a sequence of [key, value] in insertion order *)

MapHas(m, k) == \E i \in DOMAIN m : m[i].key = k
MapGet(m, k) ==
    IF MapHas(m, k)
    THEN (CHOOSE e \in { m[i] : i \in DOMAIN m } : e.key = k).value
    ELSE Undefined
MapSet(m, k, v) ==
    IF MapHas(m, k)
    THEN [i \in DOMAIN m |-> IF m[i].key = k THEN [key |-> k, value |-> v] ELSE m[i]]
    ELSE Append(m, [key |-> k, value |-> v])
MapKeys(m) == { m[i].key : i \in DOMAIN m }

-----------------------------------------------------------------------------
(* showCompletionNotification *)

DefaultErrorMessage ==
    "Import failed. Check your CSV for correct fields and required values."
SuccessMessage == "CSV import finished successfully."

\* JSON.parse(x).message: [ok |-> FALSE] when JSON.parse or the member access
\* throws; JSON.parse(undefined) throws a SyntaxError
JSONParseMessage(x) ==
    IF x = Str(GoodJson)
    THEN [ok |-> TRUE, message |-> "Row 2 is invalid"]
    ELSE [ok |-> FALSE]

\* payload.errors[0]: undefined past the end of the array
First(arr) == IF Len(arr.val) >= 1 THEN Str(arr.val[1]) ELSE Undefined

isSuccess(payload) == payload.status = "completed"

\* a variant that asks for an entry in the list (errors.length > 0)
isError_NonEmpty(payload) ==
    /\ ~isSuccess(payload)
    /\ Truthy(payload.errors)
    /\ Len(payload.errors.val) >= 1

isError(payload) == ~isSuccess(payload) /\ Truthy(payload.errors)

\* a variant that shows the raw entry when it cannot be parsed
ErrorMessage_Raw(payload) ==
    IF isError(payload) /\ isArray(payload.errors)
    THEN LET r == JSONParseMessage(First(payload.errors))
         IN  IF r.ok THEN r.message
             ELSE IF Len(payload.errors.val) >= 1 THEN payload.errors.val[1]
             ELSE DefaultErrorMessage
    ELSE DefaultErrorMessage

\* the message of an error notification (lines 39-47)
ErrorMessage(payload) ==
    IF isError(payload) /\ isArray(payload.errors)
    THEN LET r == JSONParseMessage(First(payload.errors))
         IN  IF r.ok THEN r.message ELSE DefaultErrorMessage
    ELSE DefaultErrorMessage

\* a variant that offers the button on every success
showCompletionNotification_AlwaysButton(database, collection, payload, pageCollection) ==
    IF ~isSuccess(payload) /\ ~isError(payload)
    THEN [notification |-> Undefined, invalidated |-> FALSE]
    ELSE [notification |->
            [type |-> IF isSuccess(payload) THEN "success" ELSE "error",
             message |-> IF isError(payload) THEN ErrorMessage(payload)
                         ELSE SuccessMessage,
             isHtml |-> TRUE,
             buttons |-> IF isSuccess(payload)
                         THEN Arr(<<[name |-> "View documents",
                                     goto |-> [database |-> database,
                                               collection |-> collection]]>>)
                         ELSE Undefined],
          invalidated |-> isSuccess(payload)]

\* What one call does: the notification handed to addNotification (Undefined
\* when the call returns before it) and whether invalidate(DOCUMENTS) is called.
NoNotification == [notification |-> Undefined, invalidated |-> FALSE]
showCompletionNotification(database, collection, payload, pageCollection) ==
    IF ~isSuccess(payload) /\ ~isError(payload)
    THEN NoNotification
    ELSE [notification |->
            [type |-> IF isSuccess(payload) THEN "success" ELSE "error",
             message |-> IF isError(payload) THEN ErrorMessage(payload)
                         ELSE SuccessMessage,
             isHtml |-> TRUE,
             buttons |-> IF isSuccess(payload) /\ collection # pageCollection
                         THEN Arr(<<[name |-> "View documents",
                                     goto |-> [database |-> database,
                                               collection |-> collection]]>>)
                         ELSE Undefined],
          invalidated |-> isSuccess(payload)]

-----------------------------------------------------------------------------
(* updateOrAddItem *)

\* a variant without the guard of line 69
isCsv_NoGuard(importData) == TRUE

isCsv(importData) == toLowerCase(importData.source) = <<"c", "s", "v">>

isDone(s) == s = "completed" \/ s = "failed"
isInProgress(s) == s \in {"pending", "processing", "uploading"}

\* variants of the skip rule: without its first disjunct, without its
\* second, and with a first disjunct that skips every event once done
shouldSkip_SameStatusOnly(existing, status) ==
    existing # Undefined /\ existing.status = status
shouldSkip_StaleOnly(existing, status) ==
    existing # Undefined /\ isDone(existing.status) /\ isInProgress(status)
shouldSkip_DoneAbsorbs(existing, status) ==
    \/ existing # Undefined /\ isDone(existing.status)
    \/ existing # Undefined /\ existing.status = status

\* the skip rule of the update callback (lines 95-97)
shouldSkip(existing, status) ==
    \/ existing # Undefined /\ isDone(existing.status) /\ isInProgress(status)
    \/ existing # Undefined /\ existing.status = status

\* a variant that takes the entry of a finished import out of the Map
Updated_DropsDone(m, id, status, collectionName) ==
    IF shouldSkip(MapGet(m, id), status)
    THEN m
    ELSE IF isDone(status)
         THEN SelectSeq(m, LAMBDA e : e.key # id)
         ELSE MapSet(m, id, [status |-> status,
                             collection |-> Coalesce(collectionName, Undefined)])

\* the update callback (lines 89-104): the Map the store holds afterwards
Updated(m, id, status, collectionName) ==
    IF shouldSkip(MapGet(m, id), status)
    THEN m
    ELSE MapSet(m, id, [status |-> status,
                        collection |-> Coalesce(collectionName, Undefined)])

\* the frame of a call: the locals that are live across the await, and
\* (history) whether clear ran while the call was suspended
Frame(importData) ==
    LET parts == split(Coalesce(importData.resourceId, Str(<<>>)).val, ":")
    IN  [importData |-> importData,
         databaseId |-> At(parts, 1),
         collectionId |-> At(parts, 2),
         cleared |-> FALSE]

\* lines 75-76
KnownName(m, id) ==
    LET current == MapGet(m, id)
    IN  Coalesce(IF current = Undefined THEN Undefined ELSE current.collection,
                 Null)

\* line 78: the call has to look the collection name up
NeedsLookup(m, f) ==
    ~Truthy(KnownName(m, f.importData["id"])) /\ Truthy(f.collectionId)

\* what the history variable keeps of a call of showCompletionNotification
NoCall == [called |-> FALSE]
Call(out) ==
    [called |-> TRUE,
     type |-> IF out.notification = Undefined THEN "none"
              ELSE out.notification.type,
     invalidated |-> out.invalidated]

\* lines 89-108: the store update and the notification, in one task.
\* `lookup` records how the name was obtained ("none", "ok" or "failed"),
\* before the entry of the id when the update callback started, newMap
\* that line 101 ran (the store holds a new Map object afterwards), and
\* afterClear that clear ran between the call's await and this task.
Reconcile(f, collectionName, lookup) ==
    LET id == f.importData["id"]
        status == f.importData.status
        skip == shouldSkip(MapGet(items, id), status)
    IN  /\ items' = Updated(items, id, status, collectionName)
        /\ showCsvImportBox' = (Len(items') > 0)
        /\ \E pageCollection \in PageCollections :
             last' = [op |-> "reconcile", id |-> id, status |-> status,
                      source |-> f.importData.source, lookup |-> lookup,
                      before |-> MapGet(items, id), newMap |-> ~skip,
                      afterClear |-> f.cleared,
                      call |-> IF status = "completed" \/ status = "failed"
                               THEN Call(showCompletionNotification(
                                            f.databaseId, f.collectionId,
                                            f.importData, pageCollection))
                               ELSE NoCall]

\* lines 68-87: the call up to its await, or to its end when it does not await
updateOrAddItem(importData) ==
    IF ~isCsv(importData)
    THEN /\ last' = [op |-> "discard"]
         /\ UNCHANGED <<items, showCsvImportBox, pending>>
    ELSE LET f == Frame(importData)
         IN  IF NeedsLookup(items, f)
             THEN /\ pending' = pending (+) SetToBag({f})
                  /\ last' = [op |-> "await"]
                  /\ UNCHANGED <<items, showCsvImportBox>>
             ELSE /\ Reconcile(f, KnownName(items, importData["id"]), "none")
                  /\ UNCHANGED pending

-----------------------------------------------------------------------------
(* The steps of the component *)

\* the component once onMount has run: the store holds an empty Map (line
\* 27), the fetch is in flight and the subscription is open (lines 147-163)
Mounted ==
    /\ items = <<>>
    /\ showCsvImportBox = FALSE
    /\ isOpen = TRUE
    /\ pending = EmptyBag
    /\ mounted = TRUE
    /\ fetch = "inflight"
    /\ fetchQueue = <<>>
    /\ nEvents = 0
    /\ last = [op |-> "mount"]

Init ==
    /\ Mounted
    /\ fnIn = Undefined
    /\ fnOut = Undefined

\* no callback runs while the forEach of the fetch is under way
Idle == fetchQueue = <<>>

\* the subscription callback (lines 157-162), for a migration event of the project
Subscription ==
    /\ Idle
    /\ mounted
    /\ nEvents < MaxEvents
    /\ \E importData \in Migrations : updateOrAddItem(importData)
    /\ nEvents' = nEvents + 1
    /\ UNCHANGED <<isOpen, mounted, fetch, fetchQueue, fnIn, fnOut>>

\* migrations.list() resolves: the .then callback starts its forEach (153-155)
FetchResolve ==
    /\ Idle
    /\ fetch = "inflight"
    /\ \E migrations \in FetchResults :
         /\ nEvents + Len(migrations) <= MaxEvents
         /\ fetchQueue' = migrations
         /\ nEvents' = nEvents + Len(migrations)
    /\ fetch' = "resolved"
    /\ last' = [op |-> "fetch"]
    /\ UNCHANGED <<items, showCsvImportBox, isOpen, pending, mounted,
                   fnIn, fnOut>>

\* migrations.list() rejects: nothing handles it
FetchReject ==
    /\ Idle
    /\ fetch = "inflight"
    /\ fetch' = "rejected"
    /\ last' = [op |-> "fetch"]
    /\ UNCHANGED <<items, showCsvImportBox, isOpen, pending, mounted,
                   fetchQueue, nEvents, fnIn, fnOut>>

\* one iteration of migrations.migrations.forEach(updateOrAddItem)
FetchDeliver ==
    /\ fetchQueue # <<>>
    /\ updateOrAddItem(Head(fetchQueue))
    /\ fetchQueue' = Tail(fetchQueue)
    /\ UNCHANGED <<isOpen, mounted, fetch, nEvents, fnIn, fnOut>>

\* getCollection resolves: the call resumes after the await (line 83)
LookupResolve ==
    /\ Idle
    /\ \E f \in BagToSet(pending) :
         /\ pending' = pending (-) SetToBag({f})
         /\ Reconcile(f, CollectionName(f.databaseId, f.collectionId), "ok")
    /\ UNCHANGED <<isOpen, mounted, fetch, fetchQueue, nEvents, fnIn, fnOut>>

\* a variant whose catch block returns from updateOrAddItem
LookupReject_Return ==
    /\ Idle
    /\ \E f \in BagToSet(pending) :
         /\ pending' = pending (-) SetToBag({f})
         /\ last' = [op |-> "reconcile", id |-> f.importData["id"],
                     status |-> f.importData.status,
                     source |-> f.importData.source, lookup |-> "failed",
                     before |-> MapGet(items, f.importData["id"]),
                     newMap |-> FALSE, afterClear |-> f.cleared,
                     call |-> NoCall]
    /\ UNCHANGED <<items, showCsvImportBox, isOpen, mounted, fetch,
                   fetchQueue, nEvents, fnIn, fnOut>>

\* getCollection rejects: the catch block (lines 84-86)
LookupReject ==
    /\ Idle
    /\ \E f \in BagToSet(pending) :
         /\ pending' = pending (-) SetToBag({f})
         /\ Reconcile(f, Null, "failed")
    /\ UNCHANGED <<isOpen, mounted, fetch, fetchQueue, nEvents, fnIn, fnOut>>

\* (history) a suspended call that a clear overtakes; the call itself is
\* left as it is
Overtaken(f) == [f EXCEPT !.cleared = TRUE]

\* variants of clear: one that deletes a single entry, one whose store does
\* not tell its subscribers of a set to the same object, and one that also
\* abandons the calls suspended at the await
clear_DeletesOne ==
    /\ Idle
    /\ mounted
    /\ showCsvImportBox
    /\ items' = Tail(items)
    /\ showCsvImportBox' = (Len(items') > 0)
    /\ pending' = BagOfAll(Overtaken, pending)
    /\ last' = [op |-> "clear", size |-> Len(items), newMap |-> FALSE]
    /\ UNCHANGED <<isOpen, mounted, fetch, fetchQueue, nEvents, fnIn, fnOut>>
clear_Silent ==
    /\ Idle
    /\ mounted
    /\ showCsvImportBox
    /\ items' = <<>>
    /\ pending' = BagOfAll(Overtaken, pending)
    /\ last' = [op |-> "clear", size |-> Len(items), newMap |-> FALSE]
    /\ UNCHANGED <<showCsvImportBox, isOpen, mounted, fetch, fetchQueue,
                   nEvents, fnIn, fnOut>>
clear_Cancels ==
    /\ Idle
    /\ mounted
    /\ showCsvImportBox
    /\ items' = <<>>
    /\ showCsvImportBox' = (Len(items') > 0)
    /\ pending' = EmptyBag
    /\ last' = [op |-> "clear", size |-> Len(items), newMap |-> FALSE]
    /\ UNCHANGED <<isOpen, mounted, fetch, fetchQueue, nEvents, fnIn, fnOut>>

\* clear (lines 111-116), the click handler of the close button: the Map is
\* emptied in place and the store is set to the same object
clear ==
    /\ Idle
    /\ mounted
    /\ showCsvImportBox
    /\ items' = <<>>
    /\ showCsvImportBox' = (Len(items') > 0)
    /\ pending' = BagOfAll(Overtaken, pending)
    /\ last' = [op |-> "clear", size |-> Len(items), newMap |-> FALSE]
    /\ UNCHANGED <<isOpen, mounted, fetch, fetchQueue, nEvents, fnIn, fnOut>>

\* the click handler of the toggle button (line 182)
Toggle ==
    /\ Idle
    /\ mounted
    /\ showCsvImportBox
    /\ isOpen' = ~isOpen
    /\ last' = [op |-> "toggle"]
    /\ UNCHANGED <<items, showCsvImportBox, pending, mounted, fetch,
                   fetchQueue, nEvents, fnIn, fnOut>>

\* the component is destroyed: the disposer onMount returned closes the
\* subscription (line 157); nothing cancels the fetch or the lookups
Unmount ==
    /\ Idle
    /\ mounted
    /\ mounted' = FALSE
    /\ last' = [op |-> "unmount"]
    /\ UNCHANGED <<items, showCsvImportBox, isOpen, pending, fetch,
                   fetchQueue, nEvents, fnIn, fnOut>>

Next ==
    \/ Subscription
    \/ FetchResolve
    \/ FetchReject
    \/ FetchDeliver
    \/ LookupResolve
    \/ LookupReject
    \/ clear
    \/ Toggle
    \/ Unmount

Spec == Init /\ [][Next]_vars

-----------------------------------------------------------------------------
(* showCompletionNotification on its own, over every payload *)

NotifyCollections == { Undefined, Str(<<"c">>), Str(<<"e">>) }
NotifyErrors == { Undefined, Arr(<<>>), Arr(<<GoodJson>>), Arr(<<BadJson>>) }
NotifyInputs ==
    [database : { Str(<<"d">>) },
     collection : NotifyCollections,
     payload : [status : Statuses, errors : NotifyErrors],
     pageCollection : PageCollections]

InitNotify ==
    /\ Mounted
    /\ fnIn \in NotifyInputs
    /\ fnOut = Undefined

CallNotify ==
    /\ fnOut = Undefined
    /\ fnOut' = showCompletionNotification(fnIn.database, fnIn.collection,
                                           fnIn.payload, fnIn.pageCollection)
    /\ UNCHANGED <<items, showCsvImportBox, isOpen, pending, mounted, fetch,
                   fetchQueue, nEvents, last, fnIn>>

SpecNotify == InitNotify /\ [][CallNotify]_vars

-----------------------------------------------------------------------------
(* The row of an entry: graphSize and text, over every status and name *)

\* a variant whose default arm gives an empty bar
graphSize_DefaultZero(status) ==
    CASE status = "pending" -> 10
      [] status = "processing" -> 30
      [] status = "uploading" -> 60
      [] status = "completed" -> 100
      [] status = "failed" -> 100
      [] OTHER -> 0

\* graphSize (lines 118-132)
graphSize(status) ==
    CASE status = "pending" -> 10
      [] status = "processing" -> 30
      [] status = "uploading" -> 60
      [] status = "completed" -> 100
      [] status = "failed" -> 100
      [] OTHER -> 30

\* text (lines 134-145): the markup, as the sequence of its pieces; the
\* parameter collectionName defaults to '' when it is undefined
text(status, collectionName) ==
    LET given == IF collectionName = Undefined THEN Str(<<>>) ELSE collectionName
        name == IF Truthy(given) THEN <<"<b>", given.val, "</b>">> ELSE <<>>
    IN  CASE status \in {"completed", "failed"} ->
               <<"Import to ">> \o name \o <<" ", status>>
          [] status = "processing" ->
               <<"Importing CSV file">>
                 \o (IF name # <<>> THEN <<" to ">> \o name ELSE <<>>)
          [] OTHER -> <<"Preparing CSV for import...">>

\* the statuses and names a row is drawn for: status is any string
RowStatuses == Statuses \cup {"", "Completed", "FAILED", "done"}
RowCollections ==
    { Undefined, Str(<<>>), Str(<<"U", "s", "e", "r", "s">>),
      Str(<<"O", "r", "d", "e", "r", "s">>), Str(<<"a", "&", "b">>),
      Str(<<"<", "i", ">">>) }
RowInputs == [status : RowStatuses, collection : RowCollections]

InitRow ==
    /\ Mounted
    /\ fnIn \in RowInputs
    /\ fnOut = Undefined

\* one row of the each block (lines 193-213)
RenderRow ==
    /\ fnOut = Undefined
    /\ fnOut' = [html |-> text(fnIn.status, fnIn.collection),
                 isDanger |-> (fnIn.status = "failed"),
                 graphSize |-> graphSize(fnIn.status)]
    /\ UNCHANGED <<items, showCsvImportBox, isOpen, pending, mounted, fetch,
                   fetchQueue, nEvents, last, fnIn>>

SpecRow == InitRow /\ [][RenderRow]_vars

-----------------------------------------------------------------------------
(* Properties *)

\* the last step ran the update callback of a call of updateOrAddItem
Reconciled == last.op = "reconcile"
\* ... and the registry held an entry for the event's id when it started
ReconciledEntry == Reconciled /\ last.before # Undefined

\* the same, of the step being taken
Reconciling == last'.op = "reconcile"
ReconcilingEntry == Reconciling /\ last'.before # Undefined

\* the kind of notification a call of showCompletionNotification emitted
TypeOf(out) ==
    IF out.notification = Undefined THEN "none" ELSE out.notification.type

\* C1: once the entry of an id is completed or failed, the reconciliation of
\* an event for that id with status pending, processing or uploading leaves
\* the registry as it is, whenever the event was received and whenever its
\* lookup finished.
C1_TerminalNotOverwrittenByInProgress ==
    [][ (/\ ReconcilingEntry
         /\ last'.before.status \in DoneStatuses
         /\ last'.status \in InProgressStatuses)
        => items' = items ]_vars

\* an in-progress event whose lookup resolved after the entry of its id had
\* become terminal and had got its name (so the event was received before)
C1_Witness ==
    /\ ReconciledEntry
    /\ last.before.status \in DoneStatuses
    /\ Truthy(last.before.collection)
    /\ last.status \in InProgressStatuses
    /\ last.lookup = "ok"

\* C2 (as claimed): once the entry of an id is completed or failed, no event
\* for that id, whatever its status, changes the entry's status.
C2_TerminalAbsorbing ==
    (ReconciledEntry /\ last.before.status \in DoneStatuses)
        => MapGet(items, last.id).status = last.before.status

\* C2 (amended): once the entry of an id is completed or failed, an event for
\* that id with status pending, processing, uploading or the status the entry
\* holds leaves the registry unchanged; an event with any other status (the
\* other terminal status, an unrecognized status) overwrites the status.
C2_TerminalLeftOnlyByOtherStatus ==
    [][ (ReconcilingEntry /\ last'.before.status \in DoneStatuses)
        => IF \/ last'.status \in InProgressStatuses
              \/ last'.status = last'.before.status
           THEN items' = items
           ELSE MapGet(items', last'.id).status = last'.status ]_vars

C2_Witness ==
    /\ ReconciledEntry
    /\ last.before.status = "completed"
    /\ last.status \in {"failed", "paused"}
    /\ MapGet(items, last.id).status = last.status

\* C3 (as claimed): showCompletionNotification is called exactly for the
\* events that move the entry of their id into completed or failed; an event
\* whose write is skipped calls it not.
C3_NotifiedOncePerTransition ==
    Reconciled =>
        (last.call.called <=> (last.newMap /\ last.status \in DoneStatuses))

\* C4: an event whose status is the one the entry of its id holds, and which
\* makes no collection name newly available, leaves the registry unchanged.
C4_SameStatusIdempotent ==
    [][ (/\ ReconcilingEntry
         /\ last'.before.status = last'.status
         /\ ~(~Truthy(last'.before.collection) /\ last'.lookup = "ok"))
        => items' = items ]_vars

\* a duplicate whose lookup failed after the entry had got its name
C4_Witness ==
    /\ ReconciledEntry
    /\ last.before.status = last.status
    /\ Truthy(last.before.collection)
    /\ last.lookup = "failed"

\* C5 (as claimed): an event with the status the entry holds, reconciled with
\* a successful lookup while the entry has no collection name, gives the
\* entry the resolved name and leaves its status.
C5_NameRefinedOnSameStatus ==
    (/\ ReconciledEntry
     /\ last.before.status = last.status
     /\ ~Truthy(last.before.collection)
     /\ last.lookup = "ok")
        => MapGet(items, last.id) =
               [status |-> last.status,
                collection |-> Str(<<"U", "s", "e", "r", "s">>)]

\* the spellings of "csv", compared case-insensitively
CsvSpellings ==
    { <<a, b, c>> : a \in {"c", "C"}, b \in {"s", "S"}, c \in {"v", "V"} }

\* C6: an event whose source is not csv (case-insensitively) leaves the
\* registry as it is, and only the reconciliation of a csv event adds,
\* changes or reorders an entry.
C6_OnlyCsvMutates ==
    [][ /\ last'.op = "discard" => items' = items
        /\ Reconciling /\ last'.source \notin CsvSpellings => items' = items
        /\ (\E i \in DOMAIN items' : i \notin DOMAIN items \/ items'[i] # items[i])
             => Reconciling /\ last'.source \in CsvSpellings ]_vars

\* an event of another source was discarded while the registry held entries
C6_Witness == last.op = "discard" /\ items # <<>>

\* the payload has an errors list, with at least one entry
HasErrorsList(payload) == payload.errors # Undefined
HasAnError(payload) == HasErrorsList(payload) /\ Len(payload.errors.val) >= 1

\* C7 (as claimed): a success notification exactly when status is completed,
\* an error notification exactly when it is not and the errors list has at
\* least one entry, no notification otherwise.
C7_ErrorNeedsAnEntry ==
    fnOut # Undefined =>
        TypeOf(fnOut) = IF fnIn.payload.status = "completed" THEN "success"
                        ELSE IF HasAnError(fnIn.payload) THEN "error"
                        ELSE "none"

\* C7 (amended): a success notification exactly when status is completed, an
\* error notification exactly when it is not and the payload has an errors
\* list (an empty one included), no notification otherwise.
C7_ErrorNeedsAList ==
    fnOut # Undefined =>
        TypeOf(fnOut) = IF fnIn.payload.status = "completed" THEN "success"
                        ELSE IF HasErrorsList(fnIn.payload) THEN "error"
                        ELSE "none"

\* a failed payload with an empty errors list got its error notification
C7_Witness ==
    /\ fnOut # Undefined
    /\ fnIn.payload.status = "failed"
    /\ fnIn.payload.errors = Arr(<<>>)
    /\ TypeOf(fnOut) = "error"

\* C8 (as claimed): once the component is unmounted no step writes the
\* registry.
C8_NoWriteAfterUnmount ==
    [][ ~mounted => items' = items ]_vars

\* the frames a step suspends at the await
Suspended ==
    { f \in BagToSet(pending') : CopiesIn(f, pending') > CopiesIn(f, pending) }

\* the skip rule, as the specification states it
Accepted(existing, status) ==
    \/ existing = Undefined
    \/ /\ existing.status # status
       /\ ~(existing.status \in DoneStatuses /\ status \in InProgressStatuses)

\* C9 (as claimed): when an event the skip rule accepts is received and its
\* lookup starts, the registry holds the event's status at once.
C9_StatusWrittenBeforeLookup ==
    [][ \A f \in Suspended :
          Accepted(MapGet(items, f.importData["id"]), f.importData.status)
            => /\ MapHas(items', f.importData["id"])
               /\ MapGet(items', f.importData["id"]).status = f.importData.status
      ]_vars

\* C10: when the lookup of an event the skip rule accepts fails, the entry of
\* its id gets the event's status and no collection name, and a completed or
\* failed event calls showCompletionNotification.
C10_LookupFailureNotFatal ==
    (Reconciled /\ last.lookup = "failed")
        => /\ Accepted(last.before, last.status)
              => MapGet(items, last.id) =
                     [status |-> last.status, collection |-> Undefined]
           /\ last.status \in DoneStatuses => last.call.called

\* a terminal event was written and notified after its lookup had failed
C10_Witness ==
    /\ Reconciled
    /\ last.lookup = "failed"
    /\ last.newMap
    /\ last.status \in DoneStatuses
    /\ last.call.called
    /\ MapGet(items, last.id) = [status |-> last.status, collection |-> Undefined]

\* C11: the state right after clear has an empty registry, whatever the
\* registry held before; clear is one step.
C11_ClearEmpties ==
    last.op = "clear" => Len(items) = 0

\* clear ran on a registry of two entries
C11_Witness == last.op = "clear" /\ last.size = 2 /\ items = <<>>

\* C12: in every state the widget is shown exactly when the registry holds
\* an entry.
C12_ShownIffNonEmpty ==
    showCsvImportBox <=> Len(items) > 0

\* the widget, collapsed by a toggle, was hidden by clear
C12_Witness ==
    last.op = "clear" /\ ~isOpen /\ ~showCsvImportBox /\ items = <<>>

\* C13: every step but clear keeps the ids of the registry.
C13_NoAutomaticRemoval ==
    [][ last'.op # "clear" => MapKeys(items) \subseteq MapKeys(items') ]_vars

\* an event was written over an entry that was completed or failed, and the
\* id is still in the registry
C13_Witness ==
    /\ ReconciledEntry
    /\ last.before.status \in DoneStatuses
    /\ last.newMap
    /\ MapHas(items, last.id)

\* C17 (as claimed): every step that changes the registry puts a new Map
\* object into the store.
C17_CopyOnWrite ==
    [][ items' # items => last'.newMap ]_vars

\* C18 (as claimed): a write for an id whose entry has a collection name
\* leaves the entry with a name.
C18_NameNeverLost ==
    (ReconciledEntry /\ Truthy(last.before.collection))
        => Truthy(MapGet(items, last.id).collection)

\* C19: when a call for an event with status completed or failed emits its
\* notification, the registry holds the event's status for the event's id:
\* the write and the notification are one task.
C19_WrittenWhenNotified ==
    (Reconciled /\ last.call.called /\ last.call.type # "none")
        => /\ last.status \in DoneStatuses
           /\ MapHas(items, last.id)
           /\ MapGet(items, last.id).status = last.status

\* a failed event was written and notified once its lookup had resolved
C19_Witness ==
    /\ Reconciled
    /\ last.lookup = "ok"
    /\ last.newMap
    /\ last.call.called
    /\ last.call.type = "error"
    /\ MapGet(items, last.id).status = "failed"

\* C20 (as claimed): a call that was suspended at its lookup when clear ran
\* writes nothing afterwards.
C20_ClearDiscardsInFlight ==
    (Reconciled /\ last.afterClear) => ~last.newMap

\* C20 (amended): clear leaves the suspended calls suspended, and such a
\* call, once its lookup ends, writes its event under the skip rule as if
\* clear had not run.
C20_ClearKeepsInFlight ==
    [][ /\ last'.op = "clear"
           => BagCardinality(pending') = BagCardinality(pending)
        /\ (Reconciling /\ last'.afterClear
              /\ Accepted(last'.before, last'.status))
           => /\ MapHas(items', last'.id)
              /\ MapGet(items', last'.id).status = last'.status ]_vars

\* the registry, emptied by clear, got the entry of a call that clear had
\* overtaken
C20_Witness ==
    /\ Reconciled
    /\ last.afterClear
    /\ last.before = Undefined
    /\ last.newMap
    /\ showCsvImportBox

\* C14: invalidate(DOCUMENTS) is called exactly when the notification is a
\* success; the notification has the 'View documents' button exactly when it
\* is a success and the target collection is not the one of the page; an
\* error notification has no button and invalidates nothing.
C14_SuccessOnlyEffects ==
    fnOut # Undefined =>
        LET n == fnOut.notification
            success == TypeOf(fnOut) = "success"
            button == n # Undefined /\ n.buttons # Undefined
        IN  /\ fnOut.invalidated <=> success
            /\ button <=> (success /\ fnIn.collection # fnIn.pageCollection)
            /\ button => /\ Len(n.buttons.val) = 1
                         /\ n.buttons.val[1].name = "View documents"
            /\ TypeOf(fnOut) = "error" => ~button /\ ~fnOut.invalidated

\* a success for the collection of the page: invalidation, and no button
C14_Witness ==
    /\ fnOut # Undefined
    /\ TypeOf(fnOut) = "success"
    /\ fnIn.collection = Str(<<"c">>)
    /\ fnIn.pageCollection = Str(<<"c">>)
    /\ fnOut.notification.buttons = Undefined
    /\ fnOut.invalidated

\* C15: for a failed payload whose first errors entry is not JSON, the error
\* notification is emitted and its message is the generic failure text.
C15_GenericMessageOnBadJson ==
    (/\ fnOut # Undefined
     /\ fnIn.payload.status = "failed"
     /\ HasAnError(fnIn.payload)
     /\ fnIn.payload.errors.val[1] = BadJson)
        => /\ TypeOf(fnOut) = "error"
           /\ fnOut.notification.message =
                "Import failed. Check your CSV for correct fields and required values."

C15_Witness ==
    /\ fnOut # Undefined
    /\ fnIn.payload = [status |-> "failed", errors |-> Arr(<<BadJson>>)]
    /\ TypeOf(fnOut) = "error"
    /\ fnOut.notification.message = DefaultErrorMessage

\* C16: graphSize is 10 for pending, 30 for processing, 60 for uploading, 100
\* for completed and for failed, and 30 for every other string.
C16_GraphSizeTable ==
    fnOut # Undefined =>
        fnOut.graphSize =
            IF fnIn.status = "pending" THEN 10
            ELSE IF fnIn.status = "uploading" THEN 60
            ELSE IF fnIn.status \in {"completed", "failed"} THEN 100
            ELSE 30

\* a status that is none of the five, in the spelling too
C16_Witness ==
    /\ fnOut # Undefined
    /\ fnIn.status = "Completed"
    /\ fnOut.graphSize = 30

=============================================================================
